---- MODULE Spec2Model ----
(***************************************************************************)
(* Model of content/utils/color_utils.py: _ensure_u8_3c, _mse,             *)
(* espacio_color, convertir_espacio_color and modificar_canal.             *)
(*                                                                         *)
(* An array is a record [dtype, shape, data]: data is the C-order          *)
(* flattening of the elements.  Elements of a uint8 array are the integers *)
(* 0..255.  Elements of a floating array are decimal fixed-point numbers   *)
(* in units of 1/FScale (1e-6, the resolution of the code's 1.0 + 1e-6     *)
(* threshold), or NaN.  cv2.cvtColor is an external routine: whether it    *)
(* raises and what it returns is a choice of the environment.              *)
(***************************************************************************)
EXTENDS Integers, Sequences, FiniteSets, TLC

VARIABLES pc, img, dest, canal, hist, ret, cvlog

vars == <<pc, img, dest, canal, hist, ret, cvlog>>

(* ------------------------------ bounds --------------------------------- *)

\* Largest number of pixels (H*W) of an input image or channel.
MaxPix == 2

(* ----------------------------- numbers --------------------------------- *)

\* Units per 1.0 of a floating element (1.0 + 1e-6 is FScale + 1).
FScale == 1000000
\* The floating value NaN (np.nanmax skips it, comparisons with it are False).
NaN == -2000000000
\* Largest uint8 value, the upper clip bound.
U8Max == 255
\* espacio_color: H <= 180 for a uint8 HSV image.
HueMaxU8 == 180
\* espacio_color: H <= 360 for a floating HSV image.
HueMaxFloat == 360
\* espacio_color: S, V <= 1.1 for a floating HSV image, in units of 1/FScale.
SatValMaxFloat == 1100000
\* 1.0 + 1e-6, in units of 1/FScale.
UnitMax == 1000001
\* Units per 1.0 of a rounded MSE (round(mse, 3)).
MseScale == 1000
\* The round-trip threshold 0.5, in units of 1/MseScale.
MseUmbral == 500
\* Units per 1.0 of a rounded range bound (round(c, 2)), in units of 1/FScale.
RangoStep == 10000
\* Units per 1.0 of modificar_canal's factor: factors are multiples of 1/4,
\* for which every product below is exact in binary32.
FactorDen == 4
\* The default factor 1.5, in units of 1/FactorDen.
FactorDefault == 6

(* ------------------------------ helpers -------------------------------- *)

IsNaN(v) == v = NaN

\* Python's and numpy's round: to the nearest integer, ties to the even one.
\* The value is num/den, den > 0.
RoundHalfEven(num, den) ==
    LET q == num \div den
        r == num % den
    IN  IF 2 * r < den THEN q
        ELSE IF 2 * r > den THEN q + 1
        ELSE IF q % 2 = 0 THEN q ELSE q + 1

Clip(v, lo, hi) == IF v < lo THEN lo ELSE IF v > hi THEN hi ELSE v

RECURSIVE Prod(_)
Prod(s) == IF s = <<>> THEN 1 ELSE Head(s) * Prod(Tail(s))

RECURSIVE SumSeq(_)
SumSeq(s) == IF s = <<>> THEN 0 ELSE Head(s) + SumSeq(Tail(s))

SeqRange(s) == {s[i] : i \in DOMAIN s}

MinSet(S) == CHOOSE m \in S : \A x \in S : m <= x
MaxSet(S) == CHOOSE m \in S : \A x \in S : m >= x

None == [dtype |-> "None", shape |-> <<>>, data |-> <<>>]
NoneVal == [some |-> FALSE]
Some(v) == [some |-> TRUE, val |-> v]

ndim(a) == Len(a.shape)
size(a) == Len(a.data)

\* float(x) of an element: a uint8 element in the units of a floating one.
AsFloat(dtype, v) == IF dtype = "uint8" THEN v * FScale ELSE v

IsFloating(dtype) == dtype \in {"float16", "float32", "float64"}

\* np.min / np.max of a non-empty sequence of floats: NaN propagates.
NpMin(s) == IF NaN \in SeqRange(s) THEN NaN ELSE MinSet(SeqRange(s))
NpMax(s) == IF NaN \in SeqRange(s) THEN NaN ELSE MaxSet(SeqRange(s))

\* np.nanmax of a non-empty sequence: the maximum of the elements that are
\* not NaN, NaN when all are.
NpNanMax(s) ==
    LET fin == SeqRange(s) \ {NaN}
    IN  IF fin = {} THEN NaN ELSE MaxSet(fin)

\* a <= b on floats: False when either side is NaN.
Le(a, b) == ~IsNaN(a) /\ ~IsNaN(b) /\ a <= b

\* round(c, 2) of a float.
Round2(v) == IF IsNaN(v) THEN NaN ELSE RoundHalfEven(v, RangoStep) * RangoStep

\* img[..., i] of an (H, W, 3) array, flattened.
Plane(a, i) == [j \in 1..(size(a) \div 3) |-> a.data[3 * (j - 1) + i + 1]]

FloatData(a) == [k \in 1..size(a) |-> AsFloat(a.dtype, a.data[k])]

(* ------------------- outcomes of a call ------------------------------- *)

NoError == [kind |-> "", shape |-> <<>>, names |-> <<>>]
\* ValueError("Se esperaba imagen 3 canales, got shape=...")
ShapeError(shape) == [kind |-> "ShapeError", shape |-> shape, names |-> <<>>]
\* numpy's ValueError: zero-size array to reduction operation ...
ZeroSizeError == [kind |-> "ZeroSizeError", shape |-> <<>>, names |-> <<>>]
\* ValueError("Conversión no soportada: <src> -> <dst>")
UnsupportedError(src, dst) ==
    [kind |-> "UnsupportedConversion", shape |-> <<>>, names |-> <<src, dst>>]
\* cv2.error raised by cv2.cvtColor
CvError == [kind |-> "cv2.error", shape |-> <<>>, names |-> <<>>]

(* --------------------------- _ensure_u8_3c ----------------------------- *)

Is3Channel(a) == ndim(a) = 3 /\ a.shape[3] = 3

\* (np.clip(v, 0, 1) * 255.0).round().astype(np.uint8) of one element.  The
\* cast of NaN to uint8 is undefined: nc is the value the build produces.
U8FromUnit(v, nc) ==
    IF IsNaN(v) THEN nc ELSE RoundHalfEven(Clip(v, 0, FScale) * U8Max, FScale)

\* np.clip(v, 0, 255).round().astype(np.uint8) of one element.
U8FromFull(v, nc) ==
    IF IsNaN(v) THEN nc ELSE RoundHalfEven(Clip(v, 0, U8Max * FScale), FScale)

\* mx <= 1.0 + 1e-6
IsUnitScaled(mx) == Le(mx, UnitMax)

EnsureOut(status, arr, err, same, after) ==
    [status |-> status, arr |-> arr, err |-> err, same_object |-> same,
     arg_after |-> after]

\* _ensure_u8_3c(img).  same_object: the returned object is the argument
\* itself; arg_after: the caller's array once the call is over.
_ensure_u8_3c(a, nc) ==
    IF ~Is3Channel(a)
    THEN EnsureOut("raised", None, ShapeError(a.shape), FALSE, a)
    ELSE IF a.dtype = "uint8"
    THEN EnsureOut("returned", a, NoError, TRUE, a)
    ELSE IF size(a) = 0
    THEN \* np.nanmax of an array with no elements raises ValueError
         EnsureOut("raised", None, ZeroSizeError, FALSE, a)
    ELSE LET mx == NpNanMax(a.data)
             out == IF IsUnitScaled(mx)
                    THEN [k \in 1..size(a) |-> U8FromUnit(a.data[k], nc)]
                    ELSE [k \in 1..size(a) |-> U8FromFull(a.data[k], nc)]
         IN  EnsureOut("returned",
                       [dtype |-> "uint8", shape |-> a.shape, data |-> out],
                       NoError, FALSE, a)

(* -------------------------------- _mse --------------------------------- *)

\* _mse(a, b) of two uint8 arrays of one shape with at least one element:
\* the mean of the squared differences, as the fraction num/den.
_mse(a, b) ==
    [num |-> SumSeq([k \in 1..size(a) |->
                        (a.data[k] - b.data[k]) * (a.data[k] - b.data[k])]),
     den |-> size(a)]

\* round(mse, 3), in units of 1/MseScale.
Round3(m) == RoundHalfEven(m.num * MseScale, m.den)

\* mse < 0.5
BelowUmbral(m) == m.num * MseScale < MseUmbral * m.den

(* ------------------------- cv2.cvtColor (external) --------------------- *)

\* What a round trip X -> BGR -> X gives back for a uint8 image is the
\* library's: the image itself, or the image with its first element, the
\* first half of its elements (by 1) or all its elements (by 2) moved.
Distortions == {"same", "one", "half", "all"}

Off(v, e) == IF v + e <= U8Max THEN v + e ELSE v - e

Distort(a, kind) ==
    LET n == size(a)
        k == CASE kind = "same" -> 0
               [] kind = "one"  -> 1
               [] kind = "half" -> (n + 1) \div 2
               [] OTHER         -> n
        e == IF kind = "all" THEN 2 ELSE 1
    IN  [a EXCEPT !.data = [i \in 1..n |->
                              IF i <= k THEN Off(a.data[i], e) ELSE a.data[i]]]

\* The environment's part in one espacio_color call: the cvtColor call that
\* raises (0: none of the four does) and the two recovered images.
CvChoices ==
    [raise_at : 0..4, ky : Distortions, kl : Distortions]
CvQuiet == [raise_at |-> 0, ky |-> "same", kl |-> "same"]

RoundTripCodes ==
    <<"COLOR_YCrCb2BGR", "COLOR_BGR2YCrCb", "COLOR_Lab2BGR", "COLOR_BGR2Lab">>

\* The cvtColor calls of a round trip, in order, each with whether it raised:
\* the first raise_at calls when call raise_at raises, all four otherwise.
CvCalls(raise_at) ==
    [k \in 1..(IF raise_at = 0 THEN 4 ELSE raise_at) |->
        [code |-> RoundTripCodes[k], raised |-> (k = raise_at)]]

\* Shape of cv2.cvtColor's result.
CvShape(shape, code) ==
    IF code = "COLOR_BGR2GRAY" THEN <<shape[1], shape[2]>>
    ELSE IF code = "COLOR_GRAY2BGR" THEN <<shape[1], shape[2], 3>>
    ELSE shape

(* ---------------------------- espacio_color ---------------------------- *)

EmptyDict == <<>>

InfoInit ==
    [espacio |-> "Desconocido", dtype |-> "None", shape |-> NoneVal,
     rangos |-> NoneVal, ciclos |-> EmptyDict]

Espacios == {"GRAY", "HSV", "Lab/YCrCb", "BGR/RGB", "Desconocido"}

\* dtype == np.uint8 and cmax[0] <= 180 and cmax[1] <= 255 and cmax[2] <= 255
IsHSVUint8(dtype, cmax) ==
    /\ dtype = "uint8"
    /\ Le(cmax[1], HueMaxU8 * FScale)
    /\ Le(cmax[2], U8Max * FScale)
    /\ Le(cmax[3], U8Max * FScale)

\* IsHSVFloat with 0.1 written for 1.1.
IsHSVFloat_Tenth(dtype, cmax) ==
    /\ IsFloating(dtype)
    /\ Le(cmax[1], HueMaxFloat * FScale)
    /\ Le(cmax[2], SatValMaxFloat - FScale)
    /\ Le(cmax[3], SatValMaxFloat - FScale)

\* np.issubdtype(dtype, np.floating) and cmax[0] <= 360 and cmax[1] <= 1.1
\* and cmax[2] <= 1.1
IsHSVFloat(dtype, cmax) ==
    /\ IsFloating(dtype)
    /\ Le(cmax[1], HueMaxFloat * FScale)
    /\ Le(cmax[2], SatValMaxFloat)
    /\ Le(cmax[3], SatValMaxFloat)

\* mse_y < 0.5 or mse_l < 0.5
IsLabYCrCb(mse_y, mse_l) == BelowUmbral(mse_y) \/ BelowUmbral(mse_l)

\* dtype == np.uint8 and all(m <= 255 for m in cmax)
IsBGRUint8(dtype, cmax) ==
    dtype = "uint8" /\ \A i \in 1..3 : Le(cmax[i], U8Max * FScale)

\* np.issubdtype(dtype, np.floating) and all(m <= 1.0+1e-6 for m in cmax)
IsBGRFloat(dtype, cmax) ==
    IsFloating(dtype) /\ \A i \in 1..3 : Le(cmax[i], UnitMax)

\* info["ciclos"] = {"YCrCb_mse": round(mse_y,3), "Lab_mse": round(mse_l,3)}
Ciclos(mse_y, mse_l) == [YCrCb_mse |-> Round3(mse_y), Lab_mse |-> Round3(mse_l)]

NoRoundTrip(log) ==
    [completed |-> FALSE, ciclos |-> EmptyDict, lab |-> FALSE, cvlog |-> log]

\* The end of the try block: info["ciclos"] is assigned, then the threshold
\* is tested.
RoundTripEnd(mse_y, mse_l) ==
    [completed |-> TRUE, ciclos |-> Ciclos(mse_y, mse_l),
     lab |-> IsLabYCrCb(mse_y, mse_l), cvlog |-> CvCalls(0)]

\* The four cvtColor calls on u8 and the two _mse calls.
RoundTripOf(u8, cv) ==
    IF cv.raise_at > 0
    THEN NoRoundTrip(CvCalls(cv.raise_at))
    ELSE RoundTripEnd(_mse(Distort(u8, cv.ky), u8), _mse(Distort(u8, cv.kl), u8))

RoundTripFrom(e, cv) ==
    IF e.status = "raised" THEN NoRoundTrip(<<>>) ELSE RoundTripOf(e.arr, cv)

\* The try block of espacio_color.  completed: no call raised, so that
\* info["ciclos"] was assigned; lab: the threshold test passed; cvlog: the
\* cvtColor calls made.
RoundTrip(a, cv, nc) == RoundTripFrom(_ensure_u8_3c(a, nc), cv)

ClassOut(status, info, err, log) ==
    [status |-> status, info |-> info, err |-> err, cvlog |-> log]

Labelled(info, espacio, log) ==
    ClassOut("returned", [info EXCEPT !.espacio = espacio], NoError, log)

\* info with "dtype" and "shape" set.
InfoOf(a) == [InfoInit EXCEPT !.dtype = a.dtype, !.shape = Some(a.shape)]

\* cmin and cmax of the three planes, as floats.
Stats(f) ==
    [cmin |-> [i \in 1..3 |-> NpMin(Plane(f, i - 1))],
     cmax |-> [i \in 1..3 |-> NpMax(Plane(f, i - 1))]]

\* info["rangos"] of a three-channel image.
Rangos3(st) ==
    [C0 |-> <<Round2(st.cmin[1]), Round2(st.cmax[1])>>,
     C1 |-> <<Round2(st.cmin[2]), Round2(st.cmax[2])>>,
     C2 |-> <<Round2(st.cmin[3]), Round2(st.cmax[3])>>]

\* info["rangos"] of a 2-D image.
Rangos1(f) == [Canal |-> <<Round2(NpMin(f)), Round2(NpMax(f))>>]

\* AfterRoundTrip with the MSE values kept only in a Lab/YCrCb result.
AfterRoundTrip_DropCiclos(info, dtype, cmax, rt) ==
    IF rt.completed /\ rt.lab
    THEN Labelled([info EXCEPT !.ciclos = rt.ciclos], "Lab/YCrCb", rt.cvlog)
    ELSE IF IsBGRUint8(dtype, cmax) THEN Labelled(info, "BGR/RGB", rt.cvlog)
    ELSE IF IsBGRFloat(dtype, cmax) THEN Labelled(info, "BGR/RGB", rt.cvlog)
    ELSE ClassOut("returned", info, NoError, rt.cvlog)

\* Steps 4 to 6 of espacio_color: after the try block.
AfterRoundTrip(info, dtype, cmax, rt) ==
    IF rt.completed /\ rt.lab
    THEN Labelled([info EXCEPT !.ciclos = rt.ciclos], "Lab/YCrCb", rt.cvlog)
    ELSE IF IsBGRUint8(dtype, cmax)
    THEN Labelled(IF rt.completed THEN [info EXCEPT !.ciclos = rt.ciclos]
                  ELSE info, "BGR/RGB", rt.cvlog)
    ELSE IF IsBGRFloat(dtype, cmax)
    THEN Labelled(IF rt.completed THEN [info EXCEPT !.ciclos = rt.ciclos]
                  ELSE info, "BGR/RGB", rt.cvlog)
    ELSE ClassOut("returned",
                  IF rt.completed THEN [info EXCEPT !.ciclos = rt.ciclos]
                  ELSE info, NoError, rt.cvlog)

\* Steps 3 to 6 of espacio_color, for an (H, W, 3) image with elements.
Classify3(a, info, cmax, cv, nc) ==
    IF IsHSVUint8(a.dtype, cmax) THEN Labelled(info, "HSV", <<>>)
    ELSE IF IsHSVFloat(a.dtype, cmax) THEN Labelled(info, "HSV", <<>>)
    ELSE AfterRoundTrip(info, a.dtype, cmax, RoundTrip(a, cv, nc))

WithStats(a, st, cv, nc) ==
    Classify3(a, [InfoOf(a) EXCEPT !.rangos = Some(Rangos3(st))], st.cmax, cv, nc)

\* espacio_color(img): cv and nc are the environment's choices.
espacio_color(a, cv, nc) ==
    IF a = None THEN ClassOut("returned", InfoInit, NoError, <<>>)
    ELSE IF ndim(a) = 2
    THEN IF size(a) = 0
         THEN \* np.min of an array with no elements raises ValueError
              ClassOut("raised", InfoInit, ZeroSizeError, <<>>)
         ELSE Labelled([InfoOf(a) EXCEPT !.rangos = Some(Rangos1(FloatData(a)))],
                       "GRAY", <<>>)
    ELSE IF ~Is3Channel(a)
    THEN ClassOut("returned", InfoOf(a), NoError, <<>>)
    ELSE IF size(a) = 0
    THEN \* np.min(img[..., 0]) of an empty plane raises ValueError
         ClassOut("raised", InfoInit, ZeroSizeError, <<>>)
    ELSE WithStats(a, Stats([a EXCEPT !.data = FloatData(a)]), cv, nc)

(* ----------------------- convertir_espacio_color ----------------------- *)

\* conversiones keyed on the label the classifier gives, "Lab/YCrCb".
Conversiones_LabYCrCb ==
    (<<"BGR/RGB", "HSV">> :> "COLOR_BGR2HSV") @@
    (<<"BGR/RGB", "Lab">> :> "COLOR_BGR2Lab") @@
    (<<"BGR/RGB", "GRAY">> :> "COLOR_BGR2GRAY") @@
    (<<"HSV", "BGR/RGB">> :> "COLOR_HSV2BGR") @@
    (<<"Lab/YCrCb", "BGR/RGB">> :> "COLOR_Lab2BGR") @@
    (<<"GRAY", "BGR/RGB">> :> "COLOR_GRAY2BGR")

\* The dict conversiones.
Conversiones ==
    (<<"BGR/RGB", "HSV">> :> "COLOR_BGR2HSV") @@
    (<<"BGR/RGB", "Lab">> :> "COLOR_BGR2Lab") @@
    (<<"BGR/RGB", "GRAY">> :> "COLOR_BGR2GRAY") @@
    (<<"HSV", "BGR/RGB">> :> "COLOR_HSV2BGR") @@
    (<<"Lab", "BGR/RGB">> :> "COLOR_Lab2BGR") @@
    (<<"GRAY", "BGR/RGB">> :> "COLOR_GRAY2BGR")

\* clave in conversiones
EnTabla(clave) == clave \in DOMAIN Conversiones

\* The environment's part in the converter's own cvtColor call: whether it
\* raises, and the value its result is filled with.
FinChoices == {[raises |-> TRUE, fill |-> 0], [raises |-> FALSE, fill |-> 128]}

\* cv2.cvtColor(img, code) as the converter calls it.
cvtColor(a, code, fin) ==
    LET shape == CvShape(a.shape, code)
    IN  [dtype |-> a.dtype, shape |-> shape,
         data |-> [k \in 1..Prod(shape) |-> fin.fill]]

ConvOut(status, arr, err, info, log, applied) ==
    [status |-> status, arr |-> arr, err |-> err, info |-> info,
     cvlog |-> log, applied |-> applied]

Tag(by, calls) ==
    [k \in 1..Len(calls) |->
        [by |-> by, code |-> calls[k].code, raised |-> calls[k].raised]]

\* The lookup and the converter's own cvtColor call.
Convertir(a, espacio_original, espacio_destino, info, log, fin) ==
    IF EnTabla(<<espacio_original, espacio_destino>>)
    THEN IF fin.raises
         THEN ConvOut("raised", None, CvError, info,
                log \o Tag("convertir_espacio_color",
                  <<[code |-> Conversiones[<<espacio_original, espacio_destino>>],
                     raised |-> fin.raises]>>),
                Conversiones[<<espacio_original, espacio_destino>>])
         ELSE ConvOut("returned",
                cvtColor(a, Conversiones[<<espacio_original, espacio_destino>>], fin),
                NoError, info,
                log \o Tag("convertir_espacio_color",
                  <<[code |-> Conversiones[<<espacio_original, espacio_destino>>],
                     raised |-> fin.raises]>>),
                Conversiones[<<espacio_original, espacio_destino>>])
    ELSE ConvOut("raised", None,
                 UnsupportedError(espacio_original, espacio_destino), info, log, "")

ConvertirFrom(a, c, espacio_destino, fin) ==
    IF c.status = "raised"
    THEN ConvOut("raised", None, c.err, c.info, Tag("espacio_color", c.cvlog), "")
    ELSE Convertir(a, c.info.espacio, espacio_destino, c.info,
                   Tag("espacio_color", c.cvlog), fin)

\* convertir_espacio_color(img, espacio_destino).  applied: the code of the
\* conversion the converter itself invoked, "" when it invoked none.
convertir_espacio_color(a, espacio_destino, cv, nc, fin) ==
    ConvertirFrom(a, espacio_color(a, cv, nc), espacio_destino, fin)

(* --------------------------- modificar_canal --------------------------- *)

\* astype(np.uint8) of the float num/den, 0 <= num/den <= 255: truncation.
AstypeU8(num, den) == num \div den

\* Brillo without np.clip: the cast wraps modulo 256.
Brillo_NoClip(x, factor) == ((x * factor) \div FactorDen) % (U8Max + 1)

\* np.clip(x * factor, 0, 255) of one element, then the cast.
Brillo(x, factor) ==
    AstypeU8(Clip(x * factor, 0, U8Max * FactorDen), FactorDen)

\* Contraste without the mean added back.
Contraste_NoMean(x, s, n, factor) ==
    AstypeU8(Clip((x * n - s) * factor, 0, U8Max * FactorDen * n), FactorDen * n)

\* np.clip((x - mean_val) * factor + mean_val, 0, 255) of one element, then
\* the cast; mean_val = s / n.
Contraste(x, s, n, factor) ==
    LET num == (x * n - s) * factor + FactorDen * s
        den == FactorDen * n
    IN  AstypeU8(Clip(num, 0, U8Max * den), den)

\* Invertir as 256 - x, the cast wrapping modulo 256.
Invertir_Wrap(x) == (U8Max + 1 - x) % (U8Max + 1)

\* 255 - x of one element, then the cast.
Invertir(x) == AstypeU8(U8Max - x, 1)

\* np.mean(canal_mod) is a multiple of 1/4: with it, and a factor that is one,
\* every binary32 operation of 'contraste' is exact, so that the fractions
\* above are the code's values.
ExactMean(c) ==
    IF size(c) = 0 THEN TRUE ELSE (FactorDen * SumSeq(c.data)) % size(c) = 0

\* The caller's array once modificar_canal is over: the function works on
\* canal.copy(), and every later assignment rebinds canal_mod.
CanalAfter(c, out) == c

\* modificar_canal(canal, operacion, factor) of a uint8 channel.
modificar_canal(c, operacion, factor) ==
    LET n == size(c)
        s == SumSeq(c.data)
        data == IF operacion = "brillo"
                THEN [k \in 1..n |-> Brillo(c.data[k], factor)]
                ELSE IF operacion = "contraste"
                THEN [k \in 1..n |-> Contraste(c.data[k], s, n, factor)]
                ELSE IF operacion = "invertir"
                THEN [k \in 1..n |-> Invertir(c.data[k])]
                ELSE [k \in 1..n |-> AstypeU8(c.data[k], 1)]
        out == [dtype |-> "uint8", shape |-> c.shape, data |-> data]
    IN  [out |-> out, arg_after |-> CanalAfter(c, out)]

(* ------------------------------- inputs -------------------------------- *)

Dtypes == {"uint8", "float32", "float64"}

\* Element values of the first pixel, channel by channel: on both sides of
\* every threshold the code compares that channel with.
Vals(dtype, ch) ==
    IF dtype = "uint8"
    THEN CASE ch = 0 -> {0, 180, 181, 255}
           [] ch = 1 -> {0, 255}
           [] OTHER  -> {100, 255}
    ELSE CASE ch = 0 -> {NaN, 500000, 200500000, 361000000}
           [] ch = 1 -> {-500000, 500000, 1000001, 1200000}
           [] OTHER  -> {500000, 1000002, 1200000}

\* The further pixels of an image range over a palette.
Palette(dtype) ==
    IF dtype = "uint8" THEN {<<0, 0, 0>>, <<200, 255, 100>>}
    ELSE {<<500000, 500000, 500000>>, <<200500000, 1200000, NaN>>}

RECURSIVE PaletteSeqs(_, _)
PaletteSeqs(dtype, n) ==
    IF n = 0 THEN {<<>>}
    ELSE {p \o r : p \in Palette(dtype), r \in PaletteSeqs(dtype, n - 1)}

PixelData(dtype, npix) ==
    IF npix = 0 THEN {<<>>}
    ELSE {<<a, b, c>> \o r : a \in Vals(dtype, 0), b \in Vals(dtype, 1),
                             c \in Vals(dtype, 2),
                             r \in PaletteSeqs(dtype, npix - 1)}

Planes == {<<h, w>> : h \in 0..MaxPix, w \in 0..MaxPix}
PlaneShapes == {s \in Planes : s[1] * s[2] <= MaxPix}

\* (H, W, 3) images.
Images3 ==
    UNION {{[dtype |-> d, shape |-> <<s[1], s[2], 3>>, data |-> x] :
              x \in PixelData(d, s[1] * s[2])} :
           d \in Dtypes, s \in PlaneShapes}

\* 2-D arrays.
GrayVals(dtype) == IF dtype = "uint8" THEN {0, 181} ELSE {NaN, 500000, 1200000}
Images2 ==
    UNION {{[dtype |-> d, shape |-> s, data |-> x] :
              x \in [1..(s[1] * s[2]) -> GrayVals(d)]} :
           d \in Dtypes, s \in PlaneShapes}

\* Arrays that are neither 2-D nor (H, W, 3): the code reads their ndim and
\* shape only.
OtherShapes ==
    {<<>>, <<0>>, <<3>>, <<0, 1, 1>>, <<1, 1, 1>>, <<1, 1, 4>>, <<1, 3, 2>>,
     <<3, 1, 1>>, <<1, 1, 1, 3>>, <<0, 1, 1, 3>>}
ImagesOther ==
    {[dtype |-> d, shape |-> s, data |-> [k \in 1..Prod(s) |-> 0]] :
        d \in Dtypes, s \in OtherShapes}

ImageInputs == {None} \cup Images3 \cup Images2 \cup ImagesOther

\* uint8 channels (2-D).
CanalVals == {0, 1, 100, 200, 255}
Canales ==
    UNION {{[dtype |-> "uint8", shape |-> s, data |-> x] :
              x \in [1..(s[1] * s[2]) -> CanalVals]} : s \in PlaneShapes}

Operaciones == {"brillo", "contraste", "invertir", "otra"}
\* -1.0, 1.0, 1.25, 1.5 and 2.0
Factores == {-4, 4, 5, FactorDefault, 8}

Destinos == {"HSV", "Lab", "GRAY", "BGR/RGB", "Lab/YCrCb"}

\* What the cast of NaN to uint8 may give.
NaNCasts(a) == IF NaN \in SeqRange(a.data) THEN {0, 255} ELSE {0}

\* The library's choices matter only to a call that reaches the round trip.
CvFor(a, nc) ==
    IF espacio_color(a, CvQuiet, nc).cvlog = <<>> THEN {CvQuiet}
    ELSE {c \in CvChoices : c.raise_at = 0 \/ c = [CvQuiet EXCEPT !.raise_at = c.raise_at]}

(* ------------------------------ the state ------------------------------ *)

NoRet ==
    [fn |-> "", status |-> "none", arg |-> None, info |-> InfoInit,
     arr |-> None, err |-> NoError, same_object |-> FALSE, applied |-> ""]

Init ==
    /\ \/ pc = "imagen" /\ img \in ImageInputs /\ canal = None
       \/ pc = "canal" /\ img = None /\ canal \in Canales
    /\ dest = ""
    /\ hist = <<>>
    /\ ret = NoRet
    /\ cvlog = <<>>

\* espacio_color(img)
EspacioColor ==
    /\ pc = "imagen"
    /\ \E nc \in NaNCasts(img) : \E cv \in CvFor(img, nc) :
         \E r \in {espacio_color(img, cv, nc)} :
             /\ ret' = [NoRet EXCEPT !.fn = "espacio_color", !.arg = img,
                          !.status = r.status, !.info = r.info, !.err = r.err]
             /\ cvlog' = Tag("espacio_color", r.cvlog)
    /\ pc' = "done"
    /\ UNCHANGED <<img, dest, canal, hist>>

\* convertir_espacio_color(img, espacio_destino)
ConvertirEspacioColor ==
    /\ pc = "imagen"
    /\ \E d \in Destinos : \E nc \in NaNCasts(img) : \E cv \in CvFor(img, nc) :
       \E fin \in FinChoices :
         \E r \in {convertir_espacio_color(img, d, cv, nc, fin)} :
             /\ ret' = [NoRet EXCEPT !.fn = "convertir_espacio_color",
                          !.arg = img, !.status = r.status, !.info = r.info,
                          !.arr = r.arr, !.err = r.err, !.applied = r.applied]
             /\ cvlog' = r.cvlog
             /\ dest' = d
    /\ pc' = "done"
    /\ UNCHANGED <<img, canal, hist>>

\* _ensure_u8_3c(img)
EnsureU8 ==
    /\ pc = "imagen"
    /\ img # None
    /\ \E nc \in NaNCasts(img) :
         \E r \in {_ensure_u8_3c(img, nc)} :
             /\ ret' = [NoRet EXCEPT !.fn = "_ensure_u8_3c", !.arg = img,
                          !.status = r.status, !.arr = r.arr, !.err = r.err,
                          !.same_object = r.same_object]
             /\ img' = r.arg_after
    /\ pc' = "done"
    /\ UNCHANGED <<dest, canal, hist, cvlog>>

CallModificar(c, op, f) ==
    \E r \in {modificar_canal(c, op, f)} :
        /\ hist' = Append(hist, [arg |-> c, operacion |-> op, factor |-> f,
                                 out |-> r.out, arg_after |-> r.arg_after])
        /\ ret' = [NoRet EXCEPT !.fn = "modificar_canal", !.arg = c,
                     !.status = "returned", !.arr = r.out]

\* modificar_canal(canal, operacion, factor)
ModificarCanal ==
    /\ pc = "canal"
    /\ \E op \in Operaciones, f \in Factores :
         /\ op = "contraste" => ExactMean(canal)
         /\ CallModificar(canal, op, f)
         /\ canal' = modificar_canal(canal, op, f).arg_after
    /\ pc' = "done"
    /\ UNCHANGED <<img, dest, cvlog>>

\* modificar_canal(r, operacion, factor) on the channel r the first call
\* returned
ModificarResultado ==
    /\ pc = "done"
    /\ Len(hist) = 1
    /\ \E op \in Operaciones, f \in Factores :
         /\ op = "contraste" => ExactMean(hist[1].out)
         /\ CallModificar(hist[1].out, op, f)
    /\ UNCHANGED <<pc, img, dest, canal, cvlog>>

Next ==
    \/ EspacioColor
    \/ ConvertirEspacioColor
    \/ EnsureU8
    \/ ModificarCanal
    \/ ModificarResultado

Spec == Init /\ [][Next]_vars

(* ------------------------------- claims -------------------------------- *)

Classified == ret.fn = "espacio_color" /\ ret.status = "returned"

HasElements(a) == size(a) > 0

\* C1: espacio_color never surfaces an exception: every call returns a
\* result whose label is one of the five.
C1_NeverRaises ==
    ret.fn = "espacio_color" =>
        ret.status = "returned" /\ ret.info.espacio \in Espacios

\* A floating (H, W, 3) image whose every element is 0.5.
IsHalf(a) ==
    /\ IsFloating(a.dtype) /\ Is3Channel(a) /\ HasElements(a)
    /\ \A k \in 1..size(a) : ~IsNaN(a.data[k]) /\ 2 * a.data[k] = FScale

\* C2: a floating (H, W, 3) image of 0.5 everywhere is classified BGR/RGB,
\* and its conversion to HSV invokes the converter's cvtColor, whose result
\* has shape (H, W, 3), instead of failing as unsupported.
C2_HalfIsBGR ==
    /\ ret.fn = "espacio_color" /\ IsHalf(ret.arg) =>
          ret.status = "returned" /\ ret.info.espacio = "BGR/RGB"
    /\ ret.fn = "convertir_espacio_color" /\ IsHalf(ret.arg) /\ dest = "HSV" =>
          /\ ret.applied = "COLOR_BGR2HSV"
          /\ ret.status = "returned" => ret.arr.shape = ret.arg.shape

SixPairs ==
    {<<"BGR/RGB", "HSV">>, <<"BGR/RGB", "Lab">>, <<"BGR/RGB", "GRAY">>,
     <<"HSV", "BGR/RGB">>, <<"Lab", "BGR/RGB">>, <<"GRAY", "BGR/RGB">>}

ByConverter == {k \in 1..Len(cvlog) : cvlog[k].by = "convertir_espacio_color"}

\* What C3 says of a call whose source label is src.
ConvertirAsTabla(src) ==
    IF <<src, dest>> \in SixPairs
    THEN /\ ret.applied # ""
         /\ ByConverter = {Len(cvlog)}
         /\ cvlog[Len(cvlog)].code = ret.applied
         /\ ret.status = "returned" \/ ret.err = CvError
    ELSE /\ ret.status = "raised"
         /\ ret.err = UnsupportedError(src, dest)
         /\ ret.applied = ""
         /\ ByConverter = {}

\* C3: every call of convertir_espacio_color invokes the conversion of the
\* pair (detected label, destination) exactly when the pair is one of the
\* six, and otherwise fails with the unsupported-conversion error naming
\* both labels, the converter having invoked no conversion.
C3_ConvertirTabla ==
    ret.fn = "convertir_espacio_color" => ConvertirAsTabla(ret.info.espacio)

\* The same, for the calls in which espacio_color gave a label.
C3_ConvertirTablaLabelled ==
    ret.fn = "convertir_espacio_color" /\ ret.err # ZeroSizeError =>
        ConvertirAsTabla(ret.info.espacio)

UnknownOf3 ==
    /\ Classified
    /\ ret.info.espacio = "Desconocido"
    /\ Is3Channel(ret.arg)

Populated ==
    /\ ret.info.dtype = ret.arg.dtype
    /\ ret.info.shape = Some(ret.arg.shape)
    /\ ret.info.rangos.some
    /\ DOMAIN ret.info.rangos.val = {"C0", "C1", "C2"}

\* C4 as stated: an Unknown result for an (H, W, 3) array has shape, dtype
\* and ranges populated and no round-trip MSE values.
C4_UnknownNoCiclos ==
    UnknownOf3 => Populated /\ DOMAIN ret.info.ciclos = {}

SomeCallRaised == \E k \in 1..Len(cvlog) : cvlog[k].raised

\* C4 (amended): an Unknown result for an (H, W, 3) array has shape, dtype
\* and ranges populated; its ciclos is empty exactly when a conversion of
\* the round trip raised, and otherwise holds both MSE values, neither of
\* them below 0.5.
C4_UnknownCiclos ==
    UnknownOf3 =>
        /\ Populated
        /\ IF SomeCallRaised THEN DOMAIN ret.info.ciclos = {}
           ELSE /\ DOMAIN ret.info.ciclos = {"YCrCb_mse", "Lab_mse"}
                /\ Len(cvlog) = 4
                /\ ret.info.ciclos.YCrCb_mse >= MseUmbral
                /\ ret.info.ciclos.Lab_mse >= MseUmbral

C4_Witness ==
    UnknownOf3 /\ ~SomeCallRaised /\ DOMAIN ret.info.ciclos # {}

Spread(a) == MaxSet(SeqRange(a.data)) - MinSet(SeqRange(a.data))
NonConstant(a) == Cardinality(SeqRange(a.data)) >= 2
IsContraste(h) == h.operacion = "contraste" /\ NonConstant(h.arg)

\* C5 as stated: 'contraste' with a factor above 1 strictly widens the
\* spread of a non-constant channel, and with factor 1.0 returns the input.
C5_ContrasteStrict ==
    \A i \in 1..Len(hist) :
        IsContraste(hist[i]) =>
            /\ hist[i].factor > FactorDen => Spread(hist[i].out) > Spread(hist[i].arg)
            /\ hist[i].factor = FactorDen => hist[i].out = hist[i].arg

\* C5 (amended): 'contraste' with a factor above 1 never narrows the spread
\* of a non-constant channel, and with factor 1.0 returns the input.
C5_ContrasteSpread ==
    \A i \in 1..Len(hist) :
        IsContraste(hist[i]) =>
            /\ hist[i].factor > FactorDen => Spread(hist[i].out) >= Spread(hist[i].arg)
            /\ hist[i].factor = FactorDen => hist[i].out = hist[i].arg

C5_Witness ==
    \E i \in 1..Len(hist) :
        /\ IsContraste(hist[i])
        /\ hist[i].factor > FactorDen
        /\ Spread(hist[i].out) = Spread(hist[i].arg)
        /\ Spread(hist[i].arg) < U8Max

IsInvertir(h) == h.operacion = "invertir"

\* C6: each 'invertir' maps every element x to 255 - x and leaves the
\* caller's array as it was; two in a row give back the first call's input.
C6_InvertirInvolucion ==
    /\ \A i \in 1..Len(hist) :
          IsInvertir(hist[i]) =>
            /\ hist[i].out.shape = hist[i].arg.shape
            /\ \A k \in 1..size(hist[i].arg) :
                  hist[i].out.data[k] + hist[i].arg.data[k] = U8Max
            /\ hist[i].arg_after = hist[i].arg
    /\ Len(hist) = 2 /\ IsInvertir(hist[1]) /\ IsInvertir(hist[2]) =>
          /\ hist[2].arg = hist[1].out
          /\ hist[2].out = hist[1].arg
          /\ canal = hist[1].arg

C6_Witness ==
    /\ Len(hist) = 2 /\ IsInvertir(hist[1]) /\ IsInvertir(hist[2])
    /\ hist[1].factor # hist[2].factor
    /\ NonConstant(hist[1].arg)

IsBrillo(h) == h.operacion = "brillo"

BrilloShape(h) ==
    /\ h.out.shape = h.arg.shape
    /\ size(h.out) = size(h.arg)
    /\ \A k \in 1..size(h.out) : h.out.data[k] \in 0..U8Max

BrilloCases(h) ==
    /\ h.factor = FactorDen => h.out = h.arg
    /\ h.factor = 2 * FactorDen =>
          \A k \in 1..size(h.arg) :
              /\ h.arg.data[k] = 100 => h.out.data[k] = 200
              /\ h.arg.data[k] = 200 => h.out.data[k] = U8Max

\* C7 as stated: each output element of 'brillo' is the input element times
\* the factor, clamped to [0, 255].
C7_BrilloExact ==
    \A i \in 1..Len(hist) :
        IsBrillo(hist[i]) =>
            /\ BrilloShape(hist[i])
            /\ BrilloCases(hist[i])
            /\ \A k \in 1..size(hist[i].arg) :
                  hist[i].out.data[k] * FactorDen =
                      Clip(hist[i].arg.data[k] * hist[i].factor, 0, U8Max * FactorDen)

\* C7 (amended): each output element of 'brillo' is the integer part of the
\* input element times the factor, clamped to [0, 255]; the output has the
\* input's shape and elements in 0..255; factor 1.0 returns the input,
\* factor 2.0 maps 100 to 200 and 200 to 255.
C7_BrilloTrunc ==
    \A i \in 1..Len(hist) :
        IsBrillo(hist[i]) =>
            /\ BrilloShape(hist[i])
            /\ BrilloCases(hist[i])
            /\ \A k \in 1..size(hist[i].arg) :
                 LET y == Clip(hist[i].arg.data[k] * hist[i].factor, 0,
                               U8Max * FactorDen)
                     o == hist[i].out.data[k]
                 IN  o * FactorDen <= y /\ y < (o + 1) * FactorDen

C7_Witness ==
    \E i \in 1..Len(hist) :
        /\ IsBrillo(hist[i])
        /\ \E k \in 1..size(hist[i].arg) :
              /\ hist[i].arg.data[k] * hist[i].factor < U8Max * FactorDen
              /\ hist[i].out.data[k] * FactorDen <
                    hist[i].arg.data[k] * hist[i].factor

\* The element the claim gives for the floating element v of an array whose
\* largest element is mx.
ClaimedU8(v, mx) ==
    IF mx <= UnitMax
    THEN RoundHalfEven(Clip(v, 0, FScale) * U8Max, FScale)
    ELSE RoundHalfEven(Clip(v, 0, U8Max * FScale), FScale)

\* C8: _ensure_u8_3c fails with the shape error exactly when its argument is
\* not (H, W, 3); otherwise it returns a uint8 array of the argument's
\* shape: the argument itself when that is uint8, else each element
\* converted by the scale its maximum selects; the argument is not modified.
C8_EnsureContract ==
    ret.fn = "_ensure_u8_3c" =>
        /\ img = ret.arg
        /\ IF ~Is3Channel(ret.arg)
           THEN ret.status = "raised" /\ ret.err = ShapeError(ret.arg.shape)
           ELSE /\ ret.status = "returned"
                /\ ret.arr.dtype = "uint8"
                /\ ret.arr.shape = ret.arg.shape
                /\ ret.arg.dtype = "uint8" => ret.same_object /\ ret.arr = ret.arg
                /\ IsFloating(ret.arg.dtype) /\ NaN \notin SeqRange(ret.arg.data) =>
                      \A k \in 1..size(ret.arg) :
                          ret.arr.data[k] =
                              ClaimedU8(ret.arg.data[k], MaxSet(SeqRange(ret.arg.data)))

\* C9: an image labelled Lab/YCrCb converts to no destination: the call
\* fails as unsupported; the classifier never gives the label Lab, and the
\* converter only ever applies a conversion from BGR/RGB, HSV or GRAY.
C9_LabNuncaAplicada ==
    /\ Classified => ret.info.espacio # "Lab"
    /\ ret.fn = "convertir_espacio_color" =>
          /\ ret.info.espacio = "Lab/YCrCb" =>
                /\ ret.status = "raised"
                /\ ret.err = UnsupportedError("Lab/YCrCb", dest)
                /\ ByConverter = {}
          /\ ret.applied # "COLOR_Lab2BGR"
          /\ ret.applied # "" => ret.info.espacio \in {"BGR/RGB", "HSV", "GRAY"}

C9_Witness ==
    /\ ret.fn = "convertir_espacio_color"
    /\ ret.info.espacio = "Lab/YCrCb"
    /\ dest = "BGR/RGB"
    /\ ret.err = UnsupportedError("Lab/YCrCb", "BGR/RGB")

AllUnit(a) == \A k \in 1..size(a) : Le(a.data[k], UnitMax)

\* C10: espacio_color never labels a floating image BGR/RGB: a floating
\* (H, W, 3) image whose elements are all <= 1.000001 is returned as HSV
\* before the round trip, and every floating (H, W, 3) result is HSV,
\* Lab/YCrCb or Desconocido.
C10_FloatNuncaBGR ==
    Classified /\ IsFloating(ret.arg.dtype) =>
        /\ ret.info.espacio # "BGR/RGB"
        /\ Is3Channel(ret.arg) =>
              /\ ret.info.espacio \in {"HSV", "Lab/YCrCb", "Desconocido"}
              /\ AllUnit(ret.arg) => ret.info.espacio = "HSV" /\ cvlog = <<>>

C10_Witness ==
    /\ Classified /\ IsFloating(ret.arg.dtype) /\ Is3Channel(ret.arg)
    /\ HasElements(ret.arg) /\ AllUnit(ret.arg)
    /\ ret.info.espacio = "HSV"

====
